---- MODULE Spec2Model ----
(***************************************************************************)
(* Model of paulgrammer/childprocess: the job Manager (Submit, Stop, the   *)
(* worker pool and execute), the in-memory Store, the process Runner and   *)
(* the webhook sender.                                                     *)
(*                                                                         *)
(* Go semantics kept by the model:                                         *)
(*  - InMemoryStore keeps the *Job pointer it is given and Get returns the *)
(*    same pointer, so the worker's field assignments act on the stored    *)
(*    record itself (store[id] below is the pointed-to Job);               *)
(*  - a deferred call evaluates its arguments at the defer statement and   *)
(*    runs when the function returns or panics;                            *)
(*  - a send on a closed channel panics, also for a sender that was        *)
(*    blocked when the channel was closed; a range over a closed channel   *)
(*    drains the buffered values first.                                    *)
(* Every goroutine is a process with a program counter; one action is one  *)
(* step between two points where other goroutines can interleave.          *)
(***************************************************************************)
EXTENDS Integers, Sequences, FiniteSets, TLC

\* ---------------------------------------------------------------- bounds
\* Number of Submit calls made in a behaviour (one caller each).
NumSubmits == 3
\* Largest pool size passed to NewManager.
MaxPool == 2
\* Capacity of jobsChan (1024 in manager.go:34), scaled down so that a full
\* queue is reached.
QueueCap == 1
\* Number of Stop calls made in a behaviour.
NumStops == 2

Submitters == 1..NumSubmits
\* uuid.NewString() gives every Submit call its own ID: the caller's index.
JobIDs == Submitters
Workers == 1..MaxPool
Stoppers == 1..NumStops

\* ------------------------------------------------------------- job model
JobStatusQueued == "queued"
JobStatusInProgress == "in_progress"
JobStatusCompleted == "completed"
JobStatusFailed == "failed"

\* A nil pointer; a set pointer is the one-element sequence of its value.
Nil == <<>>
Ptr(v) == <<v>>

NL == "\n"

\* ----------------------------------------------------- process behaviour
\* What the operating system does with a command: whether it can be
\* launched, how it ends and what it writes. "echo" prints one line,
\* "printf" prints a word without a newline, "warn" prints a line on
\* standard error, "false" exits with code 1, "sigkill" is ended by a
\* signal, "nosuch" is not an executable.
Commands == {"echo", "printf", "warn", "false", "sigkill", "nosuch"}

Process(command) ==
    CASE command = "echo"    -> [starts |-> TRUE,  exit |-> 0,  signaled |-> FALSE,
                                 out |-> <<"h", "i", NL>>, err |-> <<>>]
      [] command = "printf"  -> [starts |-> TRUE,  exit |-> 0,  signaled |-> FALSE,
                                 out |-> <<"h", "i">>, err |-> <<>>]
      [] command = "warn"    -> [starts |-> TRUE,  exit |-> 0,  signaled |-> FALSE,
                                 out |-> <<>>, err |-> <<"w", NL>>]
      [] command = "false"   -> [starts |-> TRUE,  exit |-> 1,  signaled |-> FALSE,
                                 out |-> <<>>, err |-> <<>>]
      [] command = "sigkill" -> [starts |-> TRUE,  exit |-> 0,  signaled |-> TRUE,
                                 out |-> <<"h">>, err |-> <<>>]
      [] OTHER               -> [starts |-> FALSE, exit |-> 0,  signaled |-> FALSE,
                                 out |-> <<>>, err |-> <<>>]

\* Directories of the file system: "tmp" exists, anything else does not.
DirExists(dir) == dir = "tmp"

\* ------------------------------------------------------------ the runner
\* ExecutorConfig as NewExecRunner builds it when DEFAULT_COMMAND is unset.
DefaultConfig ==
    [DefaultCommand |-> "", CaptureOutput |-> TRUE, MaxOutputSize |-> 1024 * 1024,
     StreamOutput |-> FALSE]

\* The configurations WithExecutorConfig can install.
Configs ==
    [DefaultCommand : {"", "echo"}, CaptureOutput : BOOLEAN,
     MaxOutputSize : {0, 2, 1024 * 1024}, StreamOutput : BOOLEAN]

MaxScanTokenSize == 64 * 1024

NoError == ""
ErrNoCommand == "validation failed: command must not be empty and no default command configured"
ErrNoJobID == "validation failed: jobID cannot be empty"
ErrWorkingDir == "invalid working directory: working directory does not exist"
ErrStart == "failed to start command: executable file not found"
ErrExit1 == "command execution failed: exit status 1"
ErrSignal == "command execution failed: signal: killed"
ErrExitOther == "command execution failed: exit status"

\* validateInput: the error it returns, NoError for nil. The empty job ID is
\* modelled by 0; uuid.NewString never produces it.
validateInput(config, command, jobID) ==
    IF jobID = 0 THEN ErrNoJobID
    ELSE IF command = "" /\ config.DefaultCommand = "" THEN ErrNoCommand
    ELSE NoError

\* validateWorkingDir for a non-empty path.
validateWorkingDir(workingDir) ==
    IF workingDir = "" \/ DirExists(workingDir) THEN NoError ELSE ErrWorkingDir

\* bufio.ScanLines drops one trailing carriage return of a line.
DropCR(line) ==
    IF line # <<>> /\ line[Len(line)] = "\r" THEN SubSeq(line, 1, Len(line) - 1) ELSE line

\* The lines bufio.Scanner yields for a byte stream: split at newlines, the
\* last line also when it is not terminated; cur is the line being read.
\* A line that does not fit the buffer ends the scan (ErrTooLong).
RECURSIVE ScanLines(_, _)
ScanLines(bytes, cur) ==
    IF Len(cur) >= MaxScanTokenSize THEN <<>>
    ELSE IF bytes = <<>> THEN (IF cur = <<>> THEN <<>> ELSE <<DropCR(cur)>>)
    ELSE IF Head(bytes) = NL THEN <<DropCR(cur)>> \o ScanLines(Tail(bytes), <<>>)
    ELSE ScanLines(Tail(bytes), Append(cur, Head(bytes)))

\* The loop of streamAndCapture over the scanned lines: builder is the
\* accumulator, forwarded what was written to the caller's writer.
RECURSIVE CaptureLines(_, _, _, _)
CaptureLines(lines, maxOutputSize, builder, forwarded) ==
    IF lines = <<>> THEN [captured |-> builder, forwarded |-> forwarded]
    ELSE LET line == Head(lines)
             b == IF maxOutputSize <= 0 \/ Len(builder) < maxOutputSize
                  THEN builder \o line \o <<NL>>
                  ELSE builder
         IN CaptureLines(Tail(lines), maxOutputSize, b, forwarded \o line \o <<NL>>)

streamAndCapture(config, bytes) ==
    CaptureLines(ScanLines(bytes, <<>>), config.MaxOutputSize, <<>>, <<>>)

\* The error cmd.Wait returns and the exit code taken from it.
WaitError(proc) ==
    IF proc.signaled THEN ErrSignal
    ELSE IF proc.exit = 0 THEN NoError
    ELSE IF proc.exit = 1 THEN ErrExit1
    ELSE ErrExitOther

\* exec.ExitError.ExitCode(): -1 for a process ended by a signal.
WaitExitCode(proc) == IF proc.signaled THEN -1 ELSE proc.exit

\* An ExecutionResult as Run allocates it: zero values.
NewResult == [ExitCode |-> 0, Stdout |-> <<>>, Stderr |-> <<>>, Error |-> NoError]

\* runWithCapturedOutput: the builders receive the output through the
\* MultiWriters but are never copied into the result.
runWithCapturedOutput(proc) ==
    IF ~proc.starts
    THEN [result |-> Ptr([NewResult EXCEPT !.Error = ErrStart]), err |-> ErrStart]
    ELSE [result |-> Ptr([NewResult EXCEPT !.ExitCode = WaitExitCode(proc),
                                           !.Error = WaitError(proc)]),
          err |-> WaitError(proc)]

\* runWithStreamedOutput: both pipes are scanned line by line.
runWithStreamedOutput(config, proc) ==
    IF ~proc.starts
    THEN [result |-> Ptr([NewResult EXCEPT !.Error = ErrStart]), err |-> ErrStart]
    ELSE [result |-> Ptr([ExitCode |-> WaitExitCode(proc),
                          Stdout |-> streamAndCapture(config, proc.out).captured,
                          Stderr |-> streamAndCapture(config, proc.err).captured,
                          Error |-> WaitError(proc)]),
          err |-> WaitError(proc)]

\* runSimpleWithOutput: cmd.Run with the two builders as the outputs.
runSimpleWithOutput(proc) ==
    IF ~proc.starts
    THEN [result |-> Ptr([NewResult EXCEPT !.ExitCode = -1,
                                           !.Error = "command execution failed: executable file not found"]),
          err |-> "command execution failed: executable file not found"]
    ELSE [result |-> Ptr([ExitCode |-> WaitExitCode(proc),
                          Stdout |-> proc.out,
                          Stderr |-> proc.err,
                          Error |-> WaitError(proc)]),
          err |-> WaitError(proc)]

\* execRunner.Run: the result pointer and the error it returns.
Run(config, jobID, command, workingDir) ==
    LET cmd == IF command = "" THEN config.DefaultCommand ELSE command
        proc == Process(cmd)
    IN IF validateInput(config, command, jobID) # NoError
       THEN [result |-> Nil, err |-> validateInput(config, command, jobID)]
       ELSE IF workingDir # "" /\ validateWorkingDir(workingDir) # NoError
       THEN [result |-> Nil, err |-> validateWorkingDir(workingDir)]
       ELSE IF config.CaptureOutput
       THEN (IF config.StreamOutput
             THEN runWithStreamedOutput(config, proc)
             ELSE runWithCapturedOutput(proc))
       ELSE runSimpleWithOutput(proc)

\* ------------------------------------------------------------- the state
VARIABLES
    config,      \* the runner's ExecutorConfig
    poolSize,    \* Manager.concurrency, the poolSize given to NewManager
    req,         \* req[s]: the CreateJobRequest of Submit call s
    createErr,   \* createErr[s]: the Store's Create fails for Submit call s
    queuedAtClose, \* history: ids, the IDs buffered in jobsChan when it was closed,
                 \* recorded by the specifications that switch it on
    store,       \* InMemoryStore.data: job ID -> the Job the stored pointer refers to
    queue,       \* the IDs buffered in jobsChan
    closed,      \* jobsChan has been closed
    closeCount,  \* number of close(jobsChan) executed
    stopped,     \* Manager.stopped
    pcS,         \* pcS[s]: where Submit call s stands
    retS,        \* retS[s]: what Submit call s returned
    deferred,    \* deferred[s]: the Job copied by defer m.notify(ctx, *job)
    pcW,         \* pcW[w]: where worker goroutine w stands
    jobW,        \* jobW[w]: the ID worker w took from jobsChan
    runW,        \* runW[w]: what runner.Run returned to worker w
    pcT,         \* pcT[t]: where Stop call t stands
    notified,    \* notified[id]: the statuses passed to sender.Notify for the job
    metrics      \* the Prometheus counters and gauges

\* One call of httpsender.Notify and the endpoint it posts to.
VARIABLES
    nMaxRetries, \* httpsender.maxRetries
    nUrlOk,      \* http.NewRequestWithContext accepts the URL
    nResponses,  \* nResponses[k]: how the endpoint answers the k-th POST
    nCancelled,  \* the context of the call is done
    nCancelAt,   \* where the call stood when its context was cancelled
    nPc,         \* where the call stands
    nAttempt,    \* the loop variable attempt
    nPosts,      \* number of POSTs issued
    nWaits,      \* the backoff intervals waited in full, in milliseconds
    nLastErr,    \* lastErr
    nRet         \* the error Notify returned

\* The LogStreamer, the connections of handleJobLogs and one execution of
\* a job seen through its calls of the streamer.
VARIABLES
    subscribers, \* LogStreamer.subscribers: job ID -> the connections, an entry per key
    connClosed,  \* connClosed[c]: conn.Close was called on connection c
    peerGone,    \* peerGone[c]: the client of connection c has gone away
    wrote,       \* wrote[c]: the payloads WriteMessage delivered on c, in order
    pcH,         \* pcH[c]: where the handleJobLogs call of connection c stands
    subAt,       \* subAt[c][p]: Broadcast calls of producer p begun before c's Subscribe
    subLate,     \* subLate[c]: Subscribe of c ran after Close(jobID)
    bc,          \* bc[p]: the Broadcast call producer p is in: payload, connections left
    calls,       \* calls[p]: number of Broadcast calls producer p has begun
    pcX,         \* where the job's execute stands
    runFails,    \* runner.Run returns an error for the job
    updated,     \* the status passed to the last store.Update
    sent,        \* the statuses passed to notify
    closeCalls,  \* number of Close(jobID) calls
    crashed      \* the process has panicked

mvars == <<config, poolSize, req, createErr, queuedAtClose, store, queue, closed, closeCount, stopped, pcS, retS,
           deferred, pcW, jobW, runW, pcT, notified, metrics>>

nvars == <<nMaxRetries, nUrlOk, nResponses, nCancelled, nCancelAt, nPc, nAttempt, nPosts,
           nWaits, nLastErr, nRet>>

svars == <<subscribers, connClosed, peerGone, wrote, pcH, subAt, subLate, bc, calls, pcX, runFails, updated, sent, closeCalls, crashed>>

vars == <<mvars, nvars, svars>>

Requests == [Command : Commands \cup {""}, WorkingDir : {"", "tmp", "gone"},
             WebhookURL : {"", "http://hook"}]

NoReturn == [id |-> 0, err |-> "pending"]
ErrStopped == "manager stopped"
\* The error a failing Store.Create hands back (manager.go:72-74).
ErrCreate == "create failed"

\* The Job Submit builds (manager.go:62-71).
NewJob(id, r) ==
    [ID |-> id, Command |-> r.Command, WorkingDir |-> r.WorkingDir,
     WebhookURL |-> r.WebhookURL, Status |-> JobStatusQueued, Error |-> NoError,
     StartedAt |-> Nil, CompletedAt |-> Nil,
     ExitCode |-> Nil, Stdout |-> Nil, Stderr |-> Nil]

\* Manager.notify: the sender's log after notify(job); nothing without a URL.
notify(log, job) ==
    IF job.WebhookURL = "" THEN log
    ELSE [log EXCEPT ![job.ID] = Append(@, job.Status)]

\* manager.go:87-93, 205-210: Manager.Get dereferences the pointer the
\* store holds for the ID, the record the worker assigns to.
Get(id) == store[id]

\* A worker that is inside execute.
InExecute(w) == pcW[w] \notin {"none", "recv", "exited"}

ZeroMetrics ==
    [JobsQueuedTotal |-> 0, JobsActive |-> 0, JobsInProgress |-> 0,
     JobsCompletedTotal |-> 0, JobsFailedTotal |-> 0]

\* Mutant of ManagerInit: the start loop ignores poolSize and starts a
\* worker for every slot.
ManagerInit_ExtraWorkers ==
    /\ poolSize \in 1..MaxPool
    /\ store = << >>
    /\ queue = <<>>
    /\ closed = FALSE
    /\ closeCount = 0
    /\ stopped = FALSE
    /\ retS = [s \in Submitters |-> NoReturn]
    /\ deferred = [s \in Submitters |-> Nil]
    /\ pcW = [w \in Workers |-> "recv"]
    /\ jobW = [w \in Workers |-> 0]
    /\ runW = [w \in Workers |-> [result |-> Nil, err |-> NoError]]
    /\ notified = [id \in JobIDs |-> <<>>]
    /\ metrics = ZeroMetrics

\* The state NewManager leaves: poolSize workers waiting on the empty queue.
\* (pcS and pcT, the calls that will be made, are set by each specification;
\* "none" is a call that is not made, or a worker that was not started.)
ManagerInit ==
    /\ poolSize \in 1..MaxPool
    /\ store = << >>
    /\ queue = <<>>
    /\ closed = FALSE
    /\ closeCount = 0
    /\ stopped = FALSE
    /\ retS = [s \in Submitters |-> NoReturn]
    /\ deferred = [s \in Submitters |-> Nil]
    /\ pcW = [w \in Workers |-> IF w <= poolSize THEN "recv" ELSE "none"]
    /\ jobW = [w \in Workers |-> 0]
    /\ runW = [w \in Workers |-> [result |-> Nil, err |-> NoError]]
    /\ notified = [id \in JobIDs |-> <<>>]
    /\ metrics = ZeroMetrics

\* ---------------------------------------------------------------- Submit
\* Mutant of SubmitCreate: the job is counted before Create's error is
\* looked at.
SubmitCreate_CountFirst(s) ==
    /\ pcS[s] = "start"
    /\ metrics' = [metrics EXCEPT !.JobsQueuedTotal = @ + 1, !.JobsActive = @ + 1]
    /\ IF createErr[s]
       THEN /\ retS' = [retS EXCEPT ![s] = [id |-> 0, err |-> ErrCreate]]
            /\ pcS' = [pcS EXCEPT ![s] = "done"]
            /\ UNCHANGED <<store, deferred>>
       ELSE /\ LET job == NewJob(s, req[s])
               IN /\ store' = (s :> job) @@ store
                  /\ deferred' = [deferred EXCEPT ![s] = Ptr(job)]
            /\ pcS' = [pcS EXCEPT ![s] = "check"]
            /\ UNCHANGED retS
    /\ UNCHANGED <<nvars, svars, config, poolSize, req, createErr, queuedAtClose, queue, closed, closeCount, stopped,
                   pcW, jobW, runW, pcT, notified>>

\* manager.go:61-78: build the job and hand it to the store; a Create that
\* fails ends the call at line 73, before the counters and the defer;
\* otherwise count the job and defer the notify.
SubmitCreate(s) ==
    /\ pcS[s] = "start"
    /\ IF createErr[s]
       THEN /\ retS' = [retS EXCEPT ![s] = [id |-> 0, err |-> ErrCreate]]
            /\ pcS' = [pcS EXCEPT ![s] = "done"]
            /\ UNCHANGED <<store, deferred, metrics>>
       ELSE /\ LET job == NewJob(s, req[s])
               IN /\ store' = (s :> job) @@ store
                  /\ deferred' = [deferred EXCEPT ![s] = Ptr(job)]
            /\ metrics' = [metrics EXCEPT !.JobsQueuedTotal = @ + 1, !.JobsActive = @ + 1]
            /\ pcS' = [pcS EXCEPT ![s] = "check"]
            /\ UNCHANGED retS
    /\ UNCHANGED <<nvars, svars, config, poolSize, req, createErr, queuedAtClose, queue, closed, closeCount, stopped,
                   pcW, jobW, runW, pcT, notified>>

\* manager.go:79-81: the stopped flag is read once, before the send.
SubmitCheck(s) ==
    /\ pcS[s] = "check"
    /\ IF stopped
       THEN /\ retS' = [retS EXCEPT ![s] = [id |-> 0, err |-> ErrStopped]]
            /\ pcS' = [pcS EXCEPT ![s] = "return"]
       ELSE /\ pcS' = [pcS EXCEPT ![s] = "send"]
            /\ UNCHANGED retS
    /\ UNCHANGED <<nvars, svars, config, poolSize, req, createErr, queuedAtClose, store, queue, closed, closeCount, stopped,
                   deferred, pcW, jobW, runW, pcT, notified, metrics>>

\* Mutant of SubmitSend: a full queue drops the ID instead of blocking.
SubmitSend_DropWhenFull(s) ==
    /\ pcS[s] = "send"
    /\ IF closed
       THEN /\ pcS' = [pcS EXCEPT ![s] = "panic"]
            /\ UNCHANGED <<queue, retS>>
       ELSE /\ queue' = IF Len(queue) < QueueCap THEN Append(queue, s) ELSE queue
            /\ retS' = [retS EXCEPT ![s] = [id |-> s, err |-> NoError]]
            /\ pcS' = [pcS EXCEPT ![s] = "return"]
    /\ UNCHANGED <<nvars, svars, config, poolSize, req, createErr, queuedAtClose, store, closed, closeCount, stopped,
                   deferred, pcW, jobW, runW, pcT, notified, metrics>>

\* manager.go:83-84: m.jobsChan <- id blocks while the buffer is full and
\* panics once the channel is closed.
SubmitSend(s) ==
    /\ pcS[s] = "send"
    /\ IF closed
       THEN /\ pcS' = [pcS EXCEPT ![s] = "panic"]
            /\ UNCHANGED <<queue, retS>>
       ELSE /\ Len(queue) < QueueCap
            /\ queue' = Append(queue, s)
            /\ retS' = [retS EXCEPT ![s] = [id |-> s, err |-> NoError]]
            /\ pcS' = [pcS EXCEPT ![s] = "return"]
    /\ UNCHANGED <<nvars, svars, config, poolSize, req, createErr, queuedAtClose, store, closed, closeCount, stopped,
                   deferred, pcW, jobW, runW, pcT, notified, metrics>>

\* The deferred m.notify(ctx, *job) of manager.go:78 runs as Submit returns
\* or unwinds, with the copy of the job taken at the defer statement.
SubmitReturn(s) ==
    /\ pcS[s] \in {"return", "panic"}
    /\ notified' = notify(notified, deferred[s][1])
    /\ pcS' = [pcS EXCEPT ![s] = IF pcS[s] = "panic" THEN "panicked" ELSE "done"]
    /\ UNCHANGED <<nvars, svars, config, poolSize, req, createErr, queuedAtClose, store, queue, closed, closeCount, stopped,
                   retS, deferred, pcW, jobW, runW, pcT, metrics>>

\* ------------------------------------------------------------------ Stop
\* manager.go:53-55: only the call that flips the flag goes on.
StopSwap(t) ==
    /\ pcT[t] = "start"
    /\ stopped' = TRUE
    /\ pcT' = [pcT EXCEPT ![t] = IF stopped THEN "returnedEarly" ELSE "close"]
    /\ UNCHANGED <<nvars, svars, config, poolSize, req, createErr, queuedAtClose, store, queue, closed, closeCount, retS,
                   pcS, deferred, pcW, jobW, runW, notified, metrics>>

\* manager.go:56: close(m.jobsChan); the IDs buffered at that moment stay
\* receivable.
StopClose(t) ==
    /\ pcT[t] = "close"
    /\ closed' = TRUE
    /\ closeCount' = closeCount + 1
    /\ queuedAtClose' = IF queuedAtClose.on THEN [queuedAtClose EXCEPT !.ids = queue]
                        ELSE queuedAtClose
    /\ pcT' = [pcT EXCEPT ![t] = "wait"]
    /\ UNCHANGED <<nvars, svars, config, poolSize, req, createErr, store, queue, stopped, retS,
                   pcS, deferred, pcW, jobW, runW, notified, metrics>>

\* Mutant of StopWait: Stop returns without waiting for the workers.
StopWait_NoWait(t) ==
    /\ pcT[t] = "wait"
    /\ pcT' = [pcT EXCEPT ![t] = "returned"]
    /\ UNCHANGED <<nvars, svars, config, poolSize, req, createErr, queuedAtClose, store, queue, closed, closeCount, stopped,
                   retS, pcS, deferred, pcW, jobW, runW, notified, metrics>>

\* manager.go:57: wg.Wait returns when every worker has called wg.Done.
StopWait(t) ==
    /\ pcT[t] = "wait"
    /\ \A w \in Workers : pcW[w] \in {"none", "exited"}
    /\ pcT' = [pcT EXCEPT ![t] = "returned"]
    /\ UNCHANGED <<nvars, svars, config, poolSize, req, createErr, queuedAtClose, store, queue, closed, closeCount, stopped,
                   retS, pcS, deferred, pcW, jobW, runW, notified, metrics>>

\* ------------------------------------------------------------ the workers
\* manager.go:44: the range loop takes the next ID.
WorkerReceive(w) ==
    /\ pcW[w] = "recv"
    /\ queue # <<>>
    /\ jobW' = [jobW EXCEPT ![w] = Head(queue)]
    /\ queue' = Tail(queue)
    /\ pcW' = [pcW EXCEPT ![w] = "begin"]
    /\ UNCHANGED <<nvars, svars, config, poolSize, req, createErr, queuedAtClose, store, closed, closeCount, stopped, pcS, retS,
                   deferred, runW, pcT, notified, metrics>>

\* Mutant of WorkerExit: the range loop ends as soon as the channel is
\* closed, whatever is still buffered.
WorkerExit_DiscardQueued(w) ==
    /\ pcW[w] = "recv"
    /\ closed
    /\ pcW' = [pcW EXCEPT ![w] = "exited"]
    /\ UNCHANGED <<nvars, svars, config, poolSize, req, createErr, queuedAtClose, store, queue, closed, closeCount, stopped, pcS,
                   retS, deferred, jobW, runW, pcT, notified, metrics>>

\* manager.go:43-44: the range loop ends on the closed and drained channel
\* and the deferred wg.Done runs.
WorkerExit(w) ==
    /\ pcW[w] = "recv"
    /\ queue = <<>>
    /\ closed
    /\ pcW' = [pcW EXCEPT ![w] = "exited"]
    /\ UNCHANGED <<nvars, svars, config, poolSize, req, createErr, queuedAtClose, store, queue, closed, closeCount, stopped, pcS,
                   retS, deferred, jobW, runW, pcT, notified, metrics>>

\* Mutant of ExecuteBegin: the in_progress assignment is left out.
ExecuteBegin_SkipInProgress(w) ==
    /\ pcW[w] = "begin"
    /\ IF jobW[w] \notin DOMAIN store
       THEN /\ pcW' = [pcW EXCEPT ![w] = "recv"]
            /\ UNCHANGED store
       ELSE /\ store' = [store EXCEPT ![jobW[w]].StartedAt = Ptr("set")]
            /\ pcW' = [pcW EXCEPT ![w] = "started"]
    /\ UNCHANGED <<nvars, svars, config, poolSize, req, createErr, queuedAtClose, queue, closed, closeCount, stopped, pcS, retS,
                   deferred, jobW, runW, pcT, notified, metrics>>

\* manager.go:97-104: Get, then the assignments through the stored pointer.
ExecuteBegin(w) ==
    /\ pcW[w] = "begin"
    /\ IF jobW[w] \notin DOMAIN store
       THEN /\ pcW' = [pcW EXCEPT ![w] = "recv"]
            /\ UNCHANGED store
       ELSE /\ store' = [store EXCEPT ![jobW[w]].Status = JobStatusInProgress,
                                      ![jobW[w]].StartedAt = Ptr("set")]
            /\ pcW' = [pcW EXCEPT ![w] = "started"]
    /\ UNCHANGED <<nvars, svars, config, poolSize, req, createErr, queuedAtClose, queue, closed, closeCount, stopped, pcS, retS,
                   deferred, jobW, runW, pcT, notified, metrics>>

\* manager.go:105-110: Update stores the same pointer again, then the
\* in_progress notification, the gauge and the first Broadcast.
ExecuteStarted(w) ==
    /\ pcW[w] = "started"
    /\ notified' = notify(notified, store[jobW[w]])
    /\ metrics' = [metrics EXCEPT !.JobsInProgress = @ + 1]
    /\ pcW' = [pcW EXCEPT ![w] = "run"]
    /\ UNCHANGED <<nvars, svars, config, poolSize, req, createErr, queuedAtClose, store, queue, closed, closeCount, stopped, pcS,
                   retS, deferred, jobW, runW, pcT>>

\* manager.go:116-119 and 129-131: runner.Run returns; on an error the job
\* is marked failed, otherwise the result is copied into the job.
ExecuteRun(w) ==
    /\ pcW[w] = "run"
    /\ LET job == store[jobW[w]]
           r == Run(config, job.ID, job.Command, job.WorkingDir)
       IN /\ runW' = [runW EXCEPT ![w] = r]
          /\ IF r.err # NoError
             THEN /\ store' = [store EXCEPT ![jobW[w]].Status = JobStatusFailed,
                                            ![jobW[w]].Error = r.err]
                  /\ pcW' = [pcW EXCEPT ![w] = "failNotify"]
             ELSE /\ store' = [store EXCEPT ![jobW[w]].ExitCode = Ptr(r.result[1].ExitCode),
                                            ![jobW[w]].Stdout = Ptr(r.result[1].Stdout),
                                            ![jobW[w]].Stderr = Ptr(r.result[1].Stderr)]
                  /\ pcW' = [pcW EXCEPT ![w] = "complete"]
    /\ UNCHANGED <<nvars, svars, config, poolSize, req, createErr, queuedAtClose, queue, closed, closeCount, stopped, pcS, retS,
                   deferred, jobW, pcT, notified, metrics>>

\* Mutant of ExecuteFailNotify: the failure ends the worker goroutine.
ExecuteFailNotify_WorkerDies(w) ==
    /\ pcW[w] = "failNotify"
    /\ notified' = notify(notified, store[jobW[w]])
    /\ metrics' = [metrics EXCEPT !.JobsInProgress = @ - 1, !.JobsFailedTotal = @ + 1]
    /\ pcW' = [pcW EXCEPT ![w] = "exited"]
    /\ UNCHANGED <<nvars, svars, config, poolSize, req, createErr, queuedAtClose, store, queue, closed, closeCount, stopped, pcS,
                   retS, deferred, jobW, runW, pcT>>

\* manager.go:120-125: the failed notification, the counters, the last
\* Broadcast; execute returns to the range loop through the deferred
\* streamer.Close (manager.go:111).
ExecuteFailNotify(w) ==
    /\ pcW[w] = "failNotify"
    /\ notified' = notify(notified, store[jobW[w]])
    /\ metrics' = [metrics EXCEPT !.JobsInProgress = @ - 1, !.JobsFailedTotal = @ + 1]
    /\ pcW' = [pcW EXCEPT ![w] = "recv"]
    /\ UNCHANGED <<nvars, svars, config, poolSize, req, createErr, queuedAtClose, store, queue, closed, closeCount, stopped, pcS,
                   retS, deferred, jobW, runW, pcT>>

\* Mutant of ExecuteComplete: the completed notification is issued before
\* the status is assigned and updated.
ExecuteComplete_NotifyFirst(w) ==
    /\ pcW[w] = "complete"
    /\ notified' = notify(notified, [store[jobW[w]] EXCEPT !.Status = JobStatusCompleted])
    /\ pcW' = [pcW EXCEPT ![w] = "completeNotify"]
    /\ UNCHANGED <<nvars, svars, config, poolSize, req, createErr, queuedAtClose, store, queue, closed, closeCount, stopped,
                   pcS, retS, deferred, jobW, runW, pcT, metrics>>

\* manager.go:142-144
ExecuteComplete(w) ==
    /\ pcW[w] = "complete"
    /\ store' = [store EXCEPT ![jobW[w]].Status = JobStatusCompleted,
                              ![jobW[w]].CompletedAt = Ptr("set")]
    /\ pcW' = [pcW EXCEPT ![w] = "completeNotify"]
    /\ UNCHANGED <<nvars, svars, config, poolSize, req, createErr, queuedAtClose, queue, closed, closeCount, stopped, pcS, retS,
                   deferred, jobW, runW, pcT, notified, metrics>>

\* manager.go:145-149: the completed notification and the counters; execute
\* returns to the range loop through the deferred streamer.Close.
ExecuteCompleteNotify(w) ==
    /\ pcW[w] = "completeNotify"
    /\ notified' = notify(notified, store[jobW[w]])
    /\ metrics' = [metrics EXCEPT !.JobsInProgress = @ - 1, !.JobsCompletedTotal = @ + 1]
    /\ pcW' = [pcW EXCEPT ![w] = "recv"]
    /\ UNCHANGED <<nvars, svars, config, poolSize, req, createErr, queuedAtClose, store, queue, closed, closeCount, stopped, pcS,
                   retS, deferred, jobW, runW, pcT>>

\* ------------------------------------------------------ httpsender.Notify
\* Largest maxRetries argument given to NewHTTPSender.
MaxRetriesArg == 3

DefaultMaxRetries == 3
BaseBackoffMs == 500
JitterStepMs == 50

\* NewHTTPSender: a negative maxRetries is replaced by the default.
NewHTTPSender(maxRetries) == IF maxRetries < 0 THEN DefaultMaxRetries ELSE maxRetries

\* The most POSTs one call can issue under the bound.
MaxPosts == (IF MaxRetriesArg > DefaultMaxRetries THEN MaxRetriesArg ELSE DefaultMaxRetries) + 1

\* Answers of the endpoint: a 2xx status, another status, no answer.
Responses == {"2xx", "500 Internal Server Error", "connection refused"}

RECURSIVE Pow2(_)
Pow2(n) == IF n = 0 THEN 1 ELSE 2 * Pow2(n - 1)

\* Mutant of backoff: the linear term is left out.
backoff_NoJitter(attempt) == BaseBackoffMs * Pow2(attempt)

\* unnamed/part_002:70-72: the interval waited after attempt, in ms
\* (baseBackoff * (1 << attempt) plus attempt * 50 ms).
backoff(attempt) == BaseBackoffMs * Pow2(attempt) + JitterStepMs * attempt

ErrBadURL == "invalid URL"
ErrCtx == "context canceled"
Pending == "pending"

\* The sender after NewHTTPSender and the call about to enter its loop.
NotifyInit ==
    /\ nMaxRetries \in {NewHTTPSender(m) : m \in -1..MaxRetriesArg}
    /\ nUrlOk \in BOOLEAN
    /\ nResponses \in [1..MaxPosts -> Responses]
    /\ nCancelled = FALSE
    /\ nCancelAt = ""
    /\ nPc = "attempt"
    /\ nAttempt = 0
    /\ nPosts = 0
    /\ nWaits = <<>>
    /\ nLastErr = NoError
    /\ nRet = Pending

\* unnamed/part_002:48-54: the request is built and client.Do sends the
\* POST. A context that is already done makes client.Do fail before
\* anything is sent.
NotifyAttempt ==
    /\ nPc = "attempt"
    /\ IF ~nUrlOk
       THEN /\ nPc' = "returned"
            /\ nRet' = ErrBadURL
            /\ UNCHANGED <<nPosts, nLastErr>>
       ELSE IF nCancelled
       THEN /\ nPc' = "backoff"
            /\ nLastErr' = ErrCtx
            /\ UNCHANGED <<nPosts, nRet>>
       ELSE /\ nPosts' = nPosts + 1
            /\ nPc' = "roundtrip"
            /\ UNCHANGED <<nLastErr, nRet>>
    /\ UNCHANGED <<mvars, svars, nMaxRetries, nUrlOk, nResponses, nCancelled, nCancelAt,
                   nAttempt, nWaits>>

\* unnamed/part_002:54-68: client.Do returns. The round trip of a context
\* cancelled meanwhile ends with the context's error; otherwise the
\* endpoint's answer decides between return nil and lastErr.
NotifyResponse ==
    /\ nPc = "roundtrip"
    /\ IF nCancelled
       THEN /\ nPc' = "backoff"
            /\ nLastErr' = ErrCtx
            /\ UNCHANGED nRet
       ELSE IF nResponses[nPosts] = "2xx"
       THEN /\ nPc' = "returned"
            /\ nRet' = NoError
            /\ UNCHANGED nLastErr
       ELSE /\ nPc' = "backoff"
            /\ nLastErr' = nResponses[nPosts]
            /\ UNCHANGED nRet
    /\ UNCHANGED <<mvars, svars, nMaxRetries, nUrlOk, nResponses, nCancelled, nCancelAt,
                   nAttempt, nPosts, nWaits>>

\* Mutant of NotifyBackoffElapsed: the loop runs while attempt < maxRetries.
NotifyBackoffElapsed_OffByOne ==
    /\ nPc = "backoff"
    /\ ~nCancelled
    /\ nWaits' = Append(nWaits, backoff(nAttempt))
    /\ nAttempt' = nAttempt + 1
    /\ IF nAttempt + 1 < nMaxRetries
       THEN nPc' = "attempt" /\ UNCHANGED nRet
       ELSE nPc' = "returned" /\ nRet' = nLastErr
    /\ UNCHANGED <<mvars, svars, nMaxRetries, nUrlOk, nResponses, nCancelled, nCancelAt,
                   nPosts, nLastErr>>

\* Mutant of NotifyBackoffElapsed: the wait is a plain sleep that does not
\* look at the context.
NotifyBackoffElapsed_Sleep ==
    /\ nPc = "backoff"
    /\ nWaits' = Append(nWaits, backoff(nAttempt))
    /\ nAttempt' = nAttempt + 1
    /\ IF nAttempt + 1 <= nMaxRetries
       THEN nPc' = "attempt" /\ UNCHANGED nRet
       ELSE nPc' = "returned" /\ nRet' = nLastErr
    /\ UNCHANGED <<mvars, svars, nMaxRetries, nUrlOk, nResponses, nCancelled, nCancelAt,
                   nPosts, nLastErr>>

\* unnamed/part_002:71-72, 48, 77: the timer of the select fires; the loop
\* goes on, or ends and lastErr is returned. The timer is at least
\* baseBackoff away when the select is entered, so with a done context
\* ctx.Done is the only ready case of the select, and a select blocked on
\* both is woken by the one that comes first: the timer case is taken only
\* while the context is not cancelled.
NotifyBackoffElapsed ==
    /\ nPc = "backoff"
    /\ ~nCancelled
    /\ nWaits' = Append(nWaits, backoff(nAttempt))
    /\ nAttempt' = nAttempt + 1
    /\ IF nAttempt + 1 <= nMaxRetries
       THEN nPc' = "attempt" /\ UNCHANGED nRet
       ELSE nPc' = "returned" /\ nRet' = nLastErr
    /\ UNCHANGED <<mvars, svars, nMaxRetries, nUrlOk, nResponses, nCancelled, nCancelAt,
                   nPosts, nLastErr>>

\* unnamed/part_002:73-74: the select takes ctx.Done.
NotifyBackoffCancelled ==
    /\ nPc = "backoff"
    /\ nCancelled
    /\ nPc' = "returned"
    /\ nRet' = ErrCtx
    /\ UNCHANGED <<mvars, svars, nMaxRetries, nUrlOk, nResponses, nCancelled, nCancelAt,
                   nAttempt, nPosts, nWaits, nLastErr>>

\* The caller's context is cancelled while the call runs; nCancelAt keeps
\* where the call stood.
ContextCancel ==
    /\ nPc # "returned"
    /\ ~nCancelled
    /\ nCancelled' = TRUE
    /\ nCancelAt' = nPc
    /\ UNCHANGED <<mvars, svars, nMaxRetries, nUrlOk, nResponses, nPc, nAttempt, nPosts, nWaits,
                   nLastErr, nRet>>

NotifyNext ==
    \/ NotifyAttempt \/ NotifyResponse
    \/ NotifyBackoffElapsed \/ NotifyBackoffCancelled \/ ContextCancel

\* No Notify call in progress (the manager specifications).
NotifyIdle ==
    /\ nMaxRetries = DefaultMaxRetries
    /\ nUrlOk = TRUE
    /\ nResponses = [k \in 1..MaxPosts |-> "2xx"]
    /\ nCancelled = FALSE
    /\ nCancelAt = ""
    /\ nPc = "returned"
    /\ nAttempt = 0
    /\ nPosts = 0
    /\ nWaits = <<>>
    /\ nLastErr = NoError
    /\ nRet = NoError

\* ------------------------------------------------------------ LogStreamer
\* Connections that ask for the job's log stream, and the Write calls the
\* runner makes for the job's standard output and standard error.
NumConns == 2
OutChunks == 2
ErrChunks == 1

Conns == 1..NumConns

\* The job whose stream is followed.
StreamJob == 1

\* The goroutines that call Broadcast for the job: execute itself and,
\* inside runner.Run, the two that forward standard output and error.
Forwarders == {"stdout", "stderr"}
Producers == {"execute"} \cup Forwarders

Chunks(p) == IF p = "stdout" THEN OutChunks ELSE ErrChunks

\* What two overlapping WriteMessage calls on one connection can do (the
\* connection allows one writer at a time): both frames go out, the frames
\* are mixed up, or the library panics.
WriteRaces == {"ok", "garbled", "panic"}

Garbled == <<"garbled", 0>>

\* The connections of the job's entry, none without an entry.
Subscribers(id) == IF id \in DOMAIN subscribers THEN subscribers[id] ELSE <<>>

\* mu is free for Lock: no Broadcast holds the read lock.
NoReaders == \A p \in Producers : bc[p] = Nil

\* Another producer is inside WriteMessage on connection c.
Overlap(p, c) ==
    \E q \in Producers \ {p} : bc[q] # Nil /\ Head(bc[q][1].todo) = c

\* unnamed/part_001:47-48: Broadcast goes on to the next connection of its
\* loop and enters WriteMessage, or leaves the loop and unlocks.
StartWrite(p, msg, todo) ==
    IF todo = <<>>
    THEN bc' = [bc EXCEPT ![p] = Nil] /\ UNCHANGED crashed
    ELSE IF Overlap(p, Head(todo))
    THEN \E o \in WriteRaces :
            /\ bc' = [bc EXCEPT ![p] = Ptr([msg |-> msg, todo |-> todo,
                                            garbled |-> o = "garbled"])]
            /\ crashed' = (o = "panic")
    ELSE /\ bc' = [bc EXCEPT ![p] = Ptr([msg |-> msg, todo |-> todo, garbled |-> FALSE])]
         /\ UNCHANGED crashed

\* unnamed/part_001:43-48: producer p calls Broadcast: it takes the read
\* lock, reads the job's connections and starts on the first.
Broadcast(p) ==
    /\ calls' = [calls EXCEPT ![p] = @ + 1]
    /\ StartWrite(p, <<p, calls[p] + 1>>, Subscribers(StreamJob))

\* unnamed/part_001:47-52: the WriteMessage producer p is in returns; its
\* error is ignored and the loop goes on. A closed connection and one whose
\* client is gone take no payload.
BroadcastWrite(p) ==
    /\ ~crashed
    /\ bc[p] # Nil
    /\ LET b == bc[p][1]
           c == Head(b.todo)
       IN /\ wrote' = IF connClosed[c] \/ peerGone[c] THEN wrote
                      ELSE [wrote EXCEPT ![c] = Append(@, IF b.garbled THEN Garbled ELSE b.msg)]
          /\ StartWrite(p, b.msg, Tail(b.todo))
    /\ UNCHANGED <<mvars, nvars, subscribers, connClosed, peerGone, pcH, subAt, subLate, calls,
                   pcX, runFails, updated, sent, closeCalls>>

\* unnamed/part_003:89-102, part_001:23-27: the request is upgraded and the
\* connection subscribed.
Subscribe(c) ==
    /\ ~crashed
    /\ pcH[c] = "start"
    /\ NoReaders
    /\ subscribers' = (StreamJob :> Append(Subscribers(StreamJob), c)) @@ subscribers
    /\ subAt' = [subAt EXCEPT ![c] = calls]
    /\ subLate' = [subLate EXCEPT ![c] = closeCalls > 0]
    /\ pcH' = [pcH EXCEPT ![c] = "reading"]
    /\ UNCHANGED <<mvars, nvars, connClosed, peerGone, wrote, bc, calls, pcX, runFails,
                   updated, sent, closeCalls, crashed>>

\* The client of a subscribed connection disconnects.
PeerDisconnect(c) ==
    /\ ~crashed
    /\ pcH[c] = "reading"
    /\ ~peerGone[c]
    /\ peerGone' = [peerGone EXCEPT ![c] = TRUE]
    /\ UNCHANGED <<mvars, nvars, subscribers, connClosed, wrote, pcH, subAt, subLate, bc, calls,
                   pcX, runFails, updated, sent, closeCalls, crashed>>

\* unnamed/part_003:106-110: NextReader fails on a connection that was
\* closed or whose client is gone; the handler closes it and leaves the loop.
ReadError(c) ==
    /\ ~crashed
    /\ pcH[c] = "reading"
    /\ peerGone[c] \/ connClosed[c]
    /\ connClosed' = [connClosed EXCEPT ![c] = TRUE]
    /\ pcH' = [pcH EXCEPT ![c] = "unsubscribe"]
    /\ UNCHANGED <<mvars, nvars, subscribers, peerGone, wrote, subAt, subLate, bc, calls, pcX, runFails, updated, sent, closeCalls, crashed>>

\* The sequence without its first element equal to c.
RECURSIVE RemoveFirst(_, _)
RemoveFirst(seq, c) ==
    IF seq = <<>> THEN <<>>
    ELSE IF Head(seq) = c THEN Tail(seq)
    ELSE <<Head(seq)>> \o RemoveFirst(Tail(seq), c)

\* unnamed/part_003:103, part_001:30-40: the deferred Unsubscribe. The entry
\* is assigned only when the connection is found in it.
Unsubscribe(c) ==
    /\ ~crashed
    /\ pcH[c] = "unsubscribe"
    /\ NoReaders
    /\ subscribers' =
          IF \E i \in 1..Len(Subscribers(StreamJob)) : Subscribers(StreamJob)[i] = c
          THEN [subscribers EXCEPT ![StreamJob] = RemoveFirst(@, c)]
          ELSE subscribers
    /\ pcH' = [pcH EXCEPT ![c] = "done"]
    /\ UNCHANGED <<mvars, nvars, connClosed, peerGone, wrote, subAt, subLate, bc, calls, pcX, runFails, updated, sent, closeCalls, crashed>>

\* Mutant of StreamExecuteStarted: Close is called at once instead of
\* being deferred.
StreamExecuteStarted_CloseFirst ==
    /\ ~crashed
    /\ pcX = "start"
    /\ NoReaders
    /\ updated' = JobStatusInProgress
    /\ sent' = Append(sent, JobStatusInProgress)
    /\ connClosed' = [c \in Conns |->
                        connClosed[c] \/ \E i \in 1..Len(Subscribers(StreamJob)) :
                                            Subscribers(StreamJob)[i] = c]
    /\ subscribers' = [id \in DOMAIN subscribers \ {StreamJob} |-> subscribers[id]]
    /\ closeCalls' = closeCalls + 1
    /\ calls' = [calls EXCEPT !["execute"] = @ + 1]
    /\ pcX' = "run"
    /\ UNCHANGED <<mvars, nvars, peerGone, wrote, pcH, subAt, subLate, bc, crashed, runFails>>

\* manager.go:102-111: in_progress is updated and notified, "Job started"
\* is broadcast and Close is deferred.
StreamExecuteStarted ==
    /\ ~crashed
    /\ pcX = "start"
    /\ updated' = JobStatusInProgress
    /\ sent' = Append(sent, JobStatusInProgress)
    /\ Broadcast("execute")
    /\ pcX' = "run"
    /\ UNCHANGED <<mvars, nvars, subscribers, connClosed, peerGone, wrote, pcH, subAt, subLate,
                   runFails, closeCalls>>

\* manager.go:165-173: inside Run, the goroutine of stream p hands the next
\* chunk of output to logStreamWriter.Write.
LogStreamWrite(p) ==
    /\ ~crashed
    /\ pcX = "run"
    /\ bc["execute"] = Nil
    /\ bc[p] = Nil
    /\ calls[p] < Chunks(p)
    /\ Broadcast(p)
    /\ UNCHANGED <<mvars, nvars, subscribers, connClosed, peerGone, wrote, pcH, subAt, subLate,
                   pcX, runFails, updated, sent, closeCalls>>

\* Stream p of the process has been forwarded in full.
Forwarded(p) == calls[p] = Chunks(p) /\ bc[p] = Nil

\* Mutant of StreamRunReturn: the streamer is closed as soon as Run has
\* returned, before the terminal status is handled.
StreamRunReturn_CloseFirst ==
    /\ ~crashed
    /\ pcX = "run"
    /\ bc["execute"] = Nil
    /\ \A p \in Forwarders : Forwarded(p)
    /\ pcX' = "return"
    /\ connClosed' = [c \in Conns |->
                        connClosed[c] \/ \E i \in 1..Len(Subscribers(StreamJob)) :
                                            Subscribers(StreamJob)[i] = c]
    /\ subscribers' = [id \in DOMAIN subscribers \ {StreamJob} |-> subscribers[id]]
    /\ closeCalls' = closeCalls + 1
    /\ UNCHANGED <<mvars, nvars, peerGone, wrote, pcH, subAt, subLate, bc, calls, crashed,
                   runFails, updated, sent>>

\* manager.go:116-124 and 129-148, runner.go:184-186: Run returns once both
\* streams are forwarded. On an error failed is updated and notified and
\* "Job failed" is broadcast; otherwise completed is updated and notified.
StreamRunReturn ==
    /\ ~crashed
    /\ pcX = "run"
    /\ bc["execute"] = Nil
    /\ \A p \in Forwarders : Forwarded(p)
    /\ pcX' = "return"
    /\ IF runFails
       THEN /\ updated' = JobStatusFailed
            /\ sent' = Append(sent, JobStatusFailed)
            /\ Broadcast("execute")
       ELSE /\ updated' = JobStatusCompleted
            /\ sent' = Append(sent, JobStatusCompleted)
            /\ UNCHANGED <<bc, calls, crashed>>
    /\ UNCHANGED <<mvars, nvars, subscribers, connClosed, peerGone, wrote, pcH, subAt, subLate,
                   runFails, closeCalls>>

\* manager.go:111, 125, 149, part_001:55-63: execute returns and the
\* deferred Close closes every connection of the job and deletes its entry.
StreamExecuteReturn ==
    /\ ~crashed
    /\ pcX = "return"
    /\ NoReaders
    /\ connClosed' = [c \in Conns |->
                        connClosed[c] \/ \E i \in 1..Len(Subscribers(StreamJob)) :
                                            Subscribers(StreamJob)[i] = c]
    /\ subscribers' = [id \in DOMAIN subscribers \ {StreamJob} |-> subscribers[id]]
    /\ closeCalls' = closeCalls + 1
    /\ pcX' = "done"
    /\ UNCHANGED <<mvars, nvars, peerGone, wrote, pcH, subAt, subLate, bc, calls, runFails, updated, sent, crashed>>

StreamNext ==
    \/ StreamExecuteStarted \/ StreamRunReturn \/ StreamExecuteReturn
    \/ \E p \in Forwarders : LogStreamWrite(p)
    \/ \E p \in Producers : BroadcastWrite(p)
    \/ \E c \in Conns : Subscribe(c) \/ PeerDisconnect(c) \/ ReadError(c) \/ Unsubscribe(c)

\* NewLogStreamer and the job taken from the queue: nothing subscribed,
\* nothing broadcast.
StreamInit ==
    /\ subscribers = << >>
    /\ connClosed = [c \in Conns |-> FALSE]
    /\ peerGone = [c \in Conns |-> FALSE]
    /\ wrote = [c \in Conns |-> <<>>]
    /\ pcH = [c \in Conns |-> "start"]
    /\ subAt = [c \in Conns |-> [p \in Producers |-> 0]]
    /\ subLate = [c \in Conns |-> FALSE]
    /\ bc = [p \in Producers |-> Nil]
    /\ calls = [p \in Producers |-> 0]
    /\ pcX = "start"
    /\ runFails \in BOOLEAN
    /\ updated = JobStatusQueued
    /\ sent = <<>>
    /\ closeCalls = 0
    /\ crashed = FALSE

\* No connection and no job followed (the other specifications).
StreamIdle ==
    /\ subscribers = << >>
    /\ connClosed = [c \in Conns |-> FALSE]
    /\ peerGone = [c \in Conns |-> FALSE]
    /\ wrote = [c \in Conns |-> <<>>]
    /\ pcH = [c \in Conns |-> "none"]
    /\ subAt = [c \in Conns |-> [p \in Producers |-> 0]]
    /\ subLate = [c \in Conns |-> FALSE]
    /\ bc = [p \in Producers |-> Nil]
    /\ calls = [p \in Producers |-> 0]
    /\ pcX = "none"
    /\ runFails = FALSE
    /\ updated = JobStatusQueued
    /\ sent = <<>>
    /\ closeCalls = 0
    /\ crashed = FALSE

\* --------------------------------------------------------- specifications
SubmitStep == \E s \in Submitters :
    SubmitCreate(s) \/ SubmitCheck(s) \/ SubmitSend(s) \/ SubmitReturn(s)

StopStep == \E t \in Stoppers : StopSwap(t) \/ StopClose(t) \/ StopWait(t)

WorkerStep == \E w \in Workers :
    \/ WorkerReceive(w) \/ WorkerExit(w)
    \/ ExecuteBegin(w) \/ ExecuteStarted(w) \/ ExecuteRun(w)
    \/ ExecuteFailNotify(w) \/ ExecuteComplete(w) \/ ExecuteCompleteNotify(w)

Next == SubmitStep \/ StopStep \/ WorkerStep

\* The requests of the concurrent workload: a command that succeeds and one
\* that cannot be launched, with a webhook, and a job without a webhook.
PoolRequests ==
    <<[Command |-> "echo", WorkingDir |-> "", WebhookURL |-> "http://hook"],
      [Command |-> "nosuch", WorkingDir |-> "", WebhookURL |-> "http://hook"],
      [Command |-> "echo", WorkingDir |-> "", WebhookURL |-> ""]>>

\* Spec: the pool under concurrent Submit and Stop calls, with the runner's
\* default configuration.
Init ==
    /\ NotifyIdle
    /\ StreamIdle
    /\ config = DefaultConfig
    /\ req = [s \in Submitters |-> PoolRequests[((s - 1) % 3) + 1]]
    /\ createErr = [s \in Submitters |-> FALSE]
    /\ queuedAtClose = [on |-> FALSE, ids |-> <<>>]
    /\ ManagerInit
    /\ pcS = [s \in Submitters |-> "start"]
    /\ pcT = [t \in Stoppers |-> "start"]

Spec == Init /\ [][Next]_vars

\* DrainSpec: Spec with the queue's content at close(jobsChan) recorded.
DrainInit ==
    /\ NotifyIdle
    /\ StreamIdle
    /\ config = DefaultConfig
    /\ req = [s \in Submitters |-> PoolRequests[((s - 1) % 3) + 1]]
    /\ createErr = [s \in Submitters |-> FALSE]
    /\ queuedAtClose = [on |-> TRUE, ids |-> <<>>]
    /\ ManagerInit
    /\ pcS = [s \in Submitters |-> "start"]
    /\ pcT = [t \in Stoppers |-> "start"]

DrainSpec == DrainInit /\ [][Next]_vars

\* ExecSpec: one Submit call and one Stop call, for every request and
\* every runner configuration.
ExecInit ==
    /\ NotifyIdle
    /\ StreamIdle
    /\ config \in Configs
    /\ req \in [Submitters -> Requests]
    /\ createErr \in [Submitters -> BOOLEAN]
    /\ queuedAtClose = [on |-> FALSE, ids |-> <<>>]
    /\ \A s \in Submitters : s > 1 => req[s] = req[1] /\ ~createErr[s]
    /\ ManagerInit
    /\ pcS = [s \in Submitters |-> IF s = 1 THEN "start" ELSE "none"]
    /\ pcT = [t \in Stoppers |-> IF t = 1 THEN "start" ELSE "none"]

ExecSpec == ExecInit /\ [][Next]_vars

\* FairSpec: Spec with the scheduling the Go runtime gives: a worker
\* goroutine that can take a step takes it (every launched process ends and
\* every Notify returns), and a Submit past its stopped check goes on
\* whenever the channel lets it. Callers are free never to call Submit or
\* Stop.
WorkerActions(w) ==
    \/ WorkerReceive(w) \/ WorkerExit(w)
    \/ ExecuteBegin(w) \/ ExecuteStarted(w) \/ ExecuteRun(w)
    \/ ExecuteFailNotify(w) \/ ExecuteComplete(w) \/ ExecuteCompleteNotify(w)

Fairness ==
    /\ \A w \in Workers : WF_vars(WorkerActions(w))
    /\ \A s \in Submitters : WF_vars(SubmitSend(s) \/ SubmitReturn(s))

FairSpec == Init /\ [][Next]_vars /\ Fairness

\* NotifySpec: one Notify call against every endpoint behaviour; the
\* manager is constructed and left alone.
NotifySpecInit ==
    /\ NotifyInit
    /\ StreamIdle
    /\ config = DefaultConfig
    /\ req = [s \in Submitters |-> PoolRequests[((s - 1) % 3) + 1]]
    /\ createErr = [s \in Submitters |-> FALSE]
    /\ queuedAtClose = [on |-> FALSE, ids |-> <<>>]
    /\ ManagerInit
    /\ poolSize = 1
    /\ pcS = [s \in Submitters |-> "none"]
    /\ pcT = [t \in Stoppers |-> "none"]

NotifySpec == NotifySpecInit /\ [][NotifyNext]_vars

\* StreamSpec: one job's execution with its forwarding goroutines, and the
\* log connections that come and go; the manager is constructed and left
\* alone.
StreamSpecInit ==
    /\ NotifyIdle
    /\ StreamInit
    /\ config = DefaultConfig
    /\ req = [s \in Submitters |-> PoolRequests[((s - 1) % 3) + 1]]
    /\ createErr = [s \in Submitters |-> FALSE]
    /\ queuedAtClose = [on |-> FALSE, ids |-> <<>>]
    /\ ManagerInit
    /\ poolSize = 1
    /\ pcS = [s \in Submitters |-> "none"]
    /\ pcT = [t \in Stoppers |-> "none"]

StreamSpec == StreamSpecInit /\ [][StreamNext]_vars

\* FairExecSpec: ExecSpec with the scheduling of FairSpec.
FairExecSpec == ExecInit /\ [][Next]_vars /\ Fairness

\* ----------------------------------------------------------------- claims
Terminal(status) == status \in {JobStatusCompleted, JobStatusFailed}

InProgressJobs == {id \in DOMAIN store : store[id].Status = JobStatusInProgress}

\* One step of the status lifecycle, or no change.
LifecycleStep(old, new) ==
    \/ new = old
    \/ old = JobStatusQueued /\ new = JobStatusInProgress
    \/ old = JobStatusInProgress /\ Terminal(new)

\* C1: in every step, under any interleaving of Submit, the workers and
\* Stop, a job enters the store as queued and its stored status either
\* stays or moves queued -> in_progress or in_progress -> completed/failed;
\* so in_progress is never skipped, nothing moves backwards, in_progress is
\* entered once and a terminal status never changes.
C1_StatusLifecycle ==
    [][/\ \A id \in DOMAIN store :
             id \in DOMAIN store' /\ LifecycleStep(store[id].Status, store'[id].Status)
       /\ \A id \in DOMAIN store' \ DOMAIN store :
             store'[id].Status = JobStatusQueued]_vars

\* C1 witness: Stop has begun, one job went through to completed and
\* another through to failed.
C1_Witness ==
    /\ stopped
    /\ \E i, j \in DOMAIN store :
          /\ store[i].Status = JobStatusCompleted
          /\ store[j].Status = JobStatusFailed

\* C2: at most poolSize jobs are in_progress, and at most poolSize workers
\* are inside execute, in every reachable state.
C2_AtMostPoolSizeInProgress ==
    /\ Cardinality(InProgressJobs) <= poolSize
    /\ Cardinality({w \in Workers : InExecute(w)}) <= poolSize

\* C2 witness: the pool is saturated while more work is waiting.
C2_Witness ==
    /\ Cardinality(InProgressJobs) = poolSize
    /\ queue # <<>>
    /\ \E s \in Submitters : pcS[s] = "send"

\* C3 (as claimed): no Submit sends on jobsChan after Stop closed it.
C3_NoSendOnClosedQueue ==
    \A s \in Submitters : pcS[s] \notin {"panic", "panicked"}

\* A Submit call blocked at the enqueue of a full, open queue.
Blocked(s) == pcS[s] = "send" /\ Len(queue) = QueueCap /\ ~closed

\* C4: while the queue is full (and not closed by Stop) a Submit at the
\* enqueue stays there, without a return value and with its job kept in the
\* store; it leaves the enqueue of the open queue only by putting its ID
\* last in the queue and returning that ID with no error, and it ends
\* otherwise only if Stop has begun; and from some point on no Submit is
\* left at the enqueue: each has returned, and every job whose ID Submit
\* returned has reached a terminal status.
C4_Backpressure ==
    /\ [][\A s \in Submitters :
            /\ Blocked(s) =>
                  pcS'[s] = "send" /\ retS'[s] = NoReturn /\ s \in DOMAIN store'
            /\ (pcS[s] = "send" /\ pcS'[s] # "send" /\ ~closed) =>
                  /\ queue' = Append(queue, s)
                  /\ retS'[s] = [id |-> s, err |-> NoError]
            /\ (pcS[s] = "send" /\ pcS'[s] # "send" /\ closed) => stopped]_vars
    /\ <>[](\A s \in Submitters :
              /\ pcS[s] \notin {"send", "return", "panic"}
              /\ retS[s].id = s =>
                    /\ pcS[s] = "done"
                    /\ s \in DOMAIN store /\ Terminal(store[s].Status))

\* C4 witness: the queue is full, every worker is running a job and a
\* further Submit waits at the enqueue.
C4_Witness ==
    /\ \E s \in Submitters : Blocked(s)
    /\ \A w \in Workers : w <= poolSize => InExecute(w)
    /\ ~stopped

\* C5 (as claimed): whenever any Stop call has returned, no job is
\* in_progress.
C5_EveryStopWaits ==
    \A t \in Stoppers :
        pcT[t] \in {"returned", "returnedEarly"} => InProgressJobs = {}

\* C5 (amended): jobsChan is closed at most once; when the Stop call that
\* won the guard has returned, every worker has left its loop, no job is
\* in_progress and every job a worker had started is terminal.
C5_StopOnceAndWinnerWaits ==
    /\ closeCount <= 1
    /\ Cardinality({t \in Stoppers : pcT[t] \in {"close", "wait", "returned"}}) <= 1
    /\ \A t \in Stoppers :
          pcT[t] = "returned" =>
             /\ closeCount = 1
             /\ \A w \in Workers : ~InExecute(w)
             /\ InProgressJobs = {}
             /\ \A id \in DOMAIN store :
                   store[id].StartedAt # Nil => Terminal(store[id].Status)

\* C5 witness: two Stop calls, one returned after the wait and the other at
\* the guard, with a job that ran to completion.
C5_Witness ==
    /\ \E t, u \in Stoppers : pcT[t] = "returned" /\ pcT[u] = "returnedEarly"
    /\ \E id \in DOMAIN store : store[id].Status = JobStatusCompleted

\* The process a job's command launches, when Run gets as far as launching.
JobProcess(job) ==
    Process(IF job.Command = "" THEN config.DefaultCommand ELSE job.Command)

Launches(job) ==
    /\ validateInput(config, job.Command, job.ID) = NoError
    /\ validateWorkingDir(job.WorkingDir) = NoError
    /\ JobProcess(job).starts

\* C6 (as claimed): a job whose process exited on its own with a non-zero
\* code ends completed with that exit code, not failed.
C6_NonZeroExitCompleted ==
    \A id \in DOMAIN store :
        LET job == store[id]
            proc == JobProcess(job)
        IN (Terminal(job.Status) /\ Launches(job) /\ ~proc.signaled /\ proc.exit # 0) =>
               /\ job.Status = JobStatusCompleted
               /\ job.ExitCode = Ptr(proc.exit)

\* C7 (as claimed): with captured output (the default configuration or
\* streamed mode) a job whose process exited with code 0 ends completed
\* with exit code 0 and with exactly the bytes the process wrote.
C7_ExitZeroOutput ==
    \A id \in DOMAIN store :
        LET job == store[id]
            proc == JobProcess(job)
        IN (/\ config.CaptureOutput
            /\ Terminal(job.Status)
            /\ Launches(job) /\ ~proc.signaled /\ proc.exit = 0) =>
               /\ job.Status = JobStatusCompleted
               /\ job.ExitCode = Ptr(0)
               /\ job.Stdout = Ptr(proc.out)
               /\ job.Stderr = Ptr(proc.err)

\* C8 (as claimed): a Submit of an empty command with no default command
\* returns the validation error, and afterwards the store has no job for it
\* and its ID is not in the queue.
C8_EmptyCommandRejected ==
    \A s \in Submitters :
        (pcS[s] = "done" /\ req[s].Command = "" /\ config.DefaultCommand = "") =>
            /\ retS[s].err = ErrNoCommand
            /\ s \notin DOMAIN store
            /\ \A i \in 1..Len(queue) : queue[i] # s

IsPrefix(p, q) == Len(p) <= Len(q) /\ SubSeq(q, 1, Len(p)) = p

\* C9 (as claimed): the statuses passed to Notify for a job are, in order,
\* queued, in_progress and then one terminal status.
C9_NotifyLifecycleOrder ==
    \A id \in JobIDs :
        \/ IsPrefix(notified[id], <<JobStatusQueued, JobStatusInProgress, JobStatusCompleted>>)
        \/ IsPrefix(notified[id], <<JobStatusQueued, JobStatusInProgress, JobStatusFailed>>)

\* The first POST the endpoint answers with 2xx; 0 when there is none.
FirstSuccess ==
    IF \E k \in 1..MaxPosts : nResponses[k] = "2xx"
    THEN CHOOSE k \in 1..MaxPosts :
            nResponses[k] = "2xx" /\ \A i \in 1..(k - 1) : nResponses[i] # "2xx"
    ELSE 0

\* C10: when the endpoint fails the first K-1 POSTs and answers the K-th
\* with 2xx, K <= maxRetries+1, and the context is not cancelled, Notify
\* returns nil after exactly K POSTs and K-1 backoff waits, the i-th wait
\* (after 0-based attempt i-1) being 500*2^(i-1) + 50*(i-1) ms.
C10_RetryThenSuccess ==
    (/\ nPc = "returned" /\ nUrlOk /\ ~nCancelled
     /\ FirstSuccess >= 1 /\ FirstSuccess <= nMaxRetries + 1) =>
        /\ nRet = NoError
        /\ nPosts = FirstSuccess
        /\ nWaits = [i \in 1..(FirstSuccess - 1) |-> 500 * (2 ^ (i - 1)) + 50 * (i - 1)]

\* C10 witness: two failures, then success on the third POST.
C10_Witness ==
    /\ nPc = "returned" /\ ~nCancelled /\ nRet = NoError
    /\ FirstSuccess = 3 /\ nPosts = 3 /\ Len(nWaits) = 2

\* Every POST the call can issue is answered with a failure.
AllFail == \A k \in 1..(nMaxRetries + 1) : nResponses[k] # "2xx"

\* C11: a call never issues more than maxRetries+1 POSTs; when every
\* attempt fails and the context is not cancelled it returns after exactly
\* maxRetries+1 POSTs, with the non-nil error of the last attempt.
C11_ExhaustRetries ==
    /\ nPosts <= nMaxRetries + 1
    /\ (nPc = "returned" /\ nUrlOk /\ ~nCancelled /\ AllFail) =>
          /\ nPosts = nMaxRetries + 1
          /\ nRet # NoError
          /\ nRet = nResponses[nMaxRetries + 1]

\* C11 witness: maxRetries 2, three failed POSTs, the last one with another
\* error than the one before.
C11_Witness ==
    /\ nPc = "returned" /\ nUrlOk /\ ~nCancelled /\ AllFail
    /\ nMaxRetries = 2 /\ nPosts = 3
    /\ nResponses[2] = "500 Internal Server Error"
    /\ nResponses[3] = "connection refused"
    /\ nRet = "connection refused"

\* The context was cancelled during a backoff wait or an HTTP round trip.
CancelledInFlight == nCancelAt \in {"backoff", "roundtrip"}

\* C12: once the context is cancelled during a backoff wait or a round trip,
\* no further POST is issued and no backoff wait is completed, and the call
\* returns nothing but the context's error.
C12_CancelEndsNotify ==
    /\ [](CancelledInFlight /\ nPc = "returned" => nRet = ErrCtx)
    /\ [][CancelledInFlight => nPosts' = nPosts /\ nWaits' = nWaits]_vars

\* C12 witness: cancelled in the first backoff wait of a call with retries
\* left; returned without the wait and without a second POST.
C12_Witness ==
    /\ nCancelAt = "backoff" /\ nPc = "returned" /\ nRet = ErrCtx
    /\ nMaxRetries >= 1 /\ nPosts = 1 /\ nWaits = <<>>

\* C19: when the retries are exhausted the call has waited once less than
\* it has POSTed: no backoff wait follows the last failed attempt.
C19_NoWaitAfterLastAttempt ==
    (nPc = "returned" /\ nUrlOk /\ ~nCancelled /\ nRet # NoError) =>
        Len(nWaits) = nPosts - 1

\* The lines, each followed by a newline, as one byte sequence.
RECURSIVE JoinLines(_)
JoinLines(lines) ==
    IF lines = <<>> THEN <<>> ELSE Head(lines) \o <<NL>> \o JoinLines(Tail(lines))

\* C20: in streamed capture with MaxOutputSize > 0 the Stdout and the Stderr
\* of the result are each at most MaxOutputSize bytes long, and every
\* scanned line is forwarded, newline-terminated and in order, to the writer.
C20_StreamedCaptureCapped ==
    (config.CaptureOutput /\ config.StreamOutput /\ config.MaxOutputSize > 0) =>
        \A id \in DOMAIN store :
            LET job == store[id]
                proc == JobProcess(job)
            IN /\ job.Stdout # Nil => Len(job.Stdout[1]) <= config.MaxOutputSize
               /\ job.Stderr # Nil => Len(job.Stderr[1]) <= config.MaxOutputSize
               /\ job.Stdout # Nil =>
                     /\ streamAndCapture(config, proc.out).forwarded
                            = JoinLines(ScanLines(proc.out, <<>>))
                     /\ streamAndCapture(config, proc.err).forwarded
                            = JoinLines(ScanLines(proc.err, <<>>))

\* C15: what Get returns for a job changes only at the worker's calls of
\* Update: between an assignment to the job record and the next Update, Get
\* still returns the values of the last Update (or Create).
C15_GetSeesOnlyUpdates ==
    \A w \in Workers :
        (InExecute(w) /\ jobW[w] \in DOMAIN store) =>
            LET job == Get(jobW[w])
            IN /\ pcW[w] = "started" =>
                     job.Status = JobStatusQueued /\ job.StartedAt = Nil
               /\ pcW[w] = "failNotify" =>
                     job.Status = JobStatusInProgress /\ job.Error = ""
               /\ pcW[w] \in {"complete", "completeNotify"} =>
                     /\ job.Status = JobStatusInProgress
                     /\ job.ExitCode = Nil /\ job.Stdout = Nil /\ job.Stderr = Nil

HasOutput(job) == job.ExitCode # Nil /\ job.Stdout # Nil /\ job.Stderr # Nil
HasNoOutput(job) == job.ExitCode = Nil /\ job.Stdout = Nil /\ job.Stderr = Nil

\* C16: in every snapshot Get can return, Error is non-empty exactly when
\* the status is failed, the output fields are present only at a terminal
\* status, and a terminal job has either its output fields or its Error.
C16_SnapshotConsistent ==
    \A id \in DOMAIN store :
        LET job == Get(id)
        IN /\ job.Error # "" <=> job.Status = JobStatusFailed
           /\ ~Terminal(job.Status) => HasNoOutput(job)
           /\ job.Status = JobStatusCompleted => HasOutput(job) /\ job.Error = ""
           /\ job.Status = JobStatusFailed => HasNoOutput(job) /\ job.Error # ""

\* The job's ID was taken from the queue by a worker.
Dequeued(id) ==
    /\ retS[id].id = id
    /\ \A k \in 1..Len(queue) : queue[k] # id

\* C17: the pool keeps its poolSize workers until Stop has closed the queue;
\* an error of Run is stored as failed with the error's text; the workers
\* return to the queue and every dequeued job ends completed or failed.
C17_DequeuedJobsFinish ==
    /\ [](\A w \in Workers :
            /\ w <= poolSize => pcW[w] # "none"
            /\ pcW[w] = "exited" => closed /\ queue = <<>>)
    /\ [](\A w \in Workers :
            pcW[w] = "failNotify" =>
                /\ runW[w].err # NoError
                /\ store[jobW[w]].Status = JobStatusFailed
                /\ store[jobW[w]].Error = runW[w].err)
    /\ <>[](/\ \A w \in Workers : ~InExecute(w)
            /\ \A id \in DOMAIN store : Dequeued(id) => Terminal(store[id].Status))

\* C17 witness: a job whose command is missing has failed with the
\* validation error and its worker waits for the next ID, the manager not
\* stopped.
C17_Witness ==
    /\ 1 \in DOMAIN store /\ Dequeued(1)
    /\ store[1].Status = JobStatusFailed /\ store[1].Error = ErrNoCommand
    /\ ~stopped
    /\ \A w \in Workers : w <= poolSize => pcW[w] = "recv"

\* Connection c is in the job's connections: subscribed before Close, not
\* unsubscribed, its client still there.
Listening(c) == pcH[c] = "reading" /\ ~subLate[c] /\ ~peerGone[c]

\* The Broadcast calls of producer p that have got past connection c.
Passed(p, c) ==
    IF bc[p] # Nil /\ \E i \in 1..Len(bc[p][1].todo) : bc[p][1].todo[i] = c
    THEN calls[p] - 1
    ELSE calls[p]

FromProducer(p, log) == SelectSeq(log, LAMBDA m : m[1] = p)

\* C13: a connection subscribed before Close and not unsubscribed has been
\* written, once each and in the order of the calls, every payload passed to
\* Broadcast after its Subscribe returned: per producer the payloads of the
\* calls since the Subscribe, with "Job started" before and "Job failed"
\* after the output, and nothing else.
C13_SubscriberGetsEveryPayload ==
    \A c \in Conns :
        Listening(c) =>
            /\ \A i \in 1..Len(wrote[c]) : wrote[c][i][1] \in Producers
            /\ \A p \in Producers :
                  FromProducer(p, wrote[c])
                     = [i \in 1..(Passed(p, c) - subAt[c][p]) |-> <<p, subAt[c][p] + i>>]
            /\ \A i \in 1..Len(wrote[c]) :
                  /\ wrote[c][i] = <<"execute", 1>> => i = 1
                  /\ wrote[c][i] = <<"execute", 2>> => i = Len(wrote[c])

\* C14: a connection subscribed after Close(jobID) is written no payload,
\* and once Close has run a Subscribe call can always proceed.
C14_LateSubscriberGetsNothing ==
    \A c \in Conns :
        /\ subLate[c] => wrote[c] = <<>>
        /\ (closeCalls > 0 /\ pcH[c] = "start") => ENABLED Subscribe(c)

\* C14 witness: one connection was served the stream, another has
\* subscribed after Close and waits in its read loop.
C14_Witness ==
    \E c, d \in Conns :
        /\ subLate[c] /\ pcH[c] = "reading" /\ wrote[c] = <<>>
        /\ ~subLate[d] /\ wrote[d] # <<>>

\* C18: Close(jobID) is called once, when the terminal status has been
\* updated and notified and no Broadcast is running; no Broadcast is begun
\* and nothing is written after it; the call leaves no entry for the job and
\* every connection of the entry closed.
C18_CloseOnceAfterEverything ==
    /\ [](closeCalls <= 1 /\ (pcX = "done" => closeCalls = 1))
    /\ [](closeCalls > 0 =>
            /\ Terminal(updated)
            /\ sent # <<>> /\ Terminal(sent[Len(sent)])
            /\ NoReaders)
    /\ [][closeCalls > 0 => calls' = calls /\ wrote' = wrote]_vars
    /\ [][closeCalls' > closeCalls =>
            /\ StreamJob \notin DOMAIN subscribers'
            /\ \A i \in 1..Len(Subscribers(StreamJob)) :
                  connClosed'[Subscribers(StreamJob)[i]]]_vars

\* C18 witness: execute has returned after a failed run; a connection that
\* listened to the whole stream was closed by Close.
C18_Witness ==
    /\ pcX = "done" /\ closeCalls = 1 /\ updated = JobStatusFailed
    /\ calls["execute"] = 2
    /\ \E c \in Conns :
          /\ pcH[c] = "reading" /\ connClosed[c] /\ ~peerGone[c]
          /\ Len(wrote[c]) = 2 + OutChunks + ErrChunks

\* The producers that are inside WriteMessage on connection c.
Writers(c) == {p \in Producers : bc[p] # Nil /\ Head(bc[p][1].todo) = c}

\* C22: at no time are two WriteMessage calls in progress on the same
\* connection.
C22_OneWriterPerConnection ==
    \A c \in Conns : Cardinality(Writers(c)) <= 1

\* C23: once Close(jobID) has run, the subscriber table has no entry for the
\* job, whatever Subscribe and Unsubscribe calls follow.
C23_NoEntryAfterClose ==
    closeCalls > 0 => StreamJob \notin DOMAIN subscribers

\* C24: every job whose status is completed or failed has StartedAt and
\* CompletedAt set.
C24_TerminalJobsHaveBothTimes ==
    \A id \in DOMAIN store :
        Terminal(store[id].Status) =>
            store[id].StartedAt # Nil /\ store[id].CompletedAt # Nil

\* The place of a status in the lifecycle.
Rank(status) ==
    IF status = JobStatusQueued THEN 0
    ELSE IF status = JobStatusInProgress THEN 1
    ELSE 2

\* C25: whenever a status is passed to Notify for a job, the store already
\* holds the job with that status or a later one.
C25_StoredBeforeNotified ==
    [][\A id \in JobIDs :
          notified'[id] # notified[id] =>
              /\ id \in DOMAIN store
              /\ Rank(store[id].Status) >= Rank(notified'[id][Len(notified'[id])])]_vars

\* C25 witness: the three notifications of a job have been issued, the
\* queued one after the worker had stored in_progress.
C25_Witness ==
    \E id \in DOMAIN store :
        /\ store[id].Status = JobStatusCompleted
        /\ notified[id] = <<JobStatusInProgress, JobStatusQueued, JobStatusCompleted>>


\* C26: when the Stop call that closed the queue returns, the queue is
\* empty, every job whose ID was buffered when the queue was closed is
\* Completed or Failed, and no job for which Submit returned its ID is
\* still Queued or InProgress.
C26_StopDrainsQueue ==
    \A t \in Stoppers : pcT[t] = "returned" =>
        /\ queue = <<>>
        /\ \A i \in 1..Len(queuedAtClose.ids) :
               /\ queuedAtClose.ids[i] \in DOMAIN store
               /\ Terminal(store[queuedAtClose.ids[i]].Status)
        /\ \A s \in Submitters : retS[s].id = s =>
               s \in DOMAIN store /\ Terminal(store[s].Status)

\* Stop has returned and an ID was buffered when it closed the queue.
C26_Witness ==
    /\ \E t \in Stoppers : pcT[t] = "returned"
    /\ queuedAtClose.ids # <<>>
    /\ Terminal(store[queuedAtClose.ids[1]].Status)

\* C21: a Submit whose Create failed returns that error with an empty ID
\* and leaves no trace: the job is not stored, its ID is neither queued nor
\* with a worker, nothing is notified and every counter is where it was;
\* and a Submit that has returned an error returned Create's error after a
\* failed Create or "manager stopped" after Stop had set the flag.
C21_CreateErrorLeavesNoTrace ==
    \A s \in Submitters :
        /\ (createErr[s] /\ pcS[s] \notin {"start", "none"}) =>
               /\ pcS[s] = "done"
               /\ retS[s] = [id |-> 0, err |-> ErrCreate]
               /\ s \notin DOMAIN store
               /\ \A i \in 1..Len(queue) : queue[i] # s
               /\ \A w \in Workers : jobW[w] # s
               /\ notified[s] = <<>>
               /\ deferred[s] = Nil
               /\ metrics = ZeroMetrics
        /\ (pcS[s] = "done" /\ retS[s].err # NoError) =>
               /\ retS[s].id = 0
               /\ \/ retS[s].err = ErrCreate /\ createErr[s]
                  \/ retS[s].err = ErrStopped /\ stopped /\ ~createErr[s]

\* Submit has returned Create's error for a request with a webhook, and the
\* manager has since been stopped.
C21_Witness ==
    /\ pcS[1] = "done"
    /\ retS[1].err = ErrCreate
    /\ req[1].WebhookURL # ""
    /\ \E t \in Stoppers : pcT[t] = "returned"
====
